---------------------------- MODULE Spec2Model ----------------------------
(***************************************************************************)
(* Model of EventFinderCLI (event_finder/src): the extraction of events    *)
(* from a page (html_parser.rs) and their normalisation                    *)
(* (data_processing.rs), driven as main.rs drives them.                    *)
(*                                                                         *)
(* A string is a sequence of symbols: single characters and, where the     *)
(* letters of a word play no part, the word as one symbol.                 *)
(***************************************************************************)
EXTENDS Integers, Sequences, FiniteSets, TLC

\* ------------------------------------------------------------------ bounds
\* Longest raw text field drawn for a direct call of process_data.
MaxLen == 2
\* Longest event vector drawn for a direct call of process_data.
MaxEvents == 2
\* How many times the local date may advance during one run.
MaxTicks == 1

VARIABLES
    pc,                \* where the run stands: menu, fetched, parsed, processed, panicked
                       \* (and fed_back, reprocessed when process_data is called twice)
    document,          \* the page as Html::parse_document built it
    config,            \* the SiteConfig handed to parse_html
    base_url,          \* the base URL handed to parse_html
    events,            \* Vec<Event>: what parse_html returned / process_data is given
    processed_events,  \* Vec<ProcessedEvent>: what process_data returned
    today,             \* the local date Local::now() reports
    ticks              \* how many times the date advanced

vars == <<pc, document, config, base_url, events, processed_events, today, ticks>>

\* ------------------------------------------------------------------ text
\* Characters str::trim removes (Unicode White_Space), as far as they are drawn.
WhiteSpace == {" ", "\n"}

\* The characters raw text fields are drawn from.
Chars == {" ", "x"}

Strs(n) == UNION {[1..k -> Chars] : k \in 0..n}

RECURSIVE trim_start(_)
trim_start(s) ==
    IF s = <<>> THEN s
    ELSE IF Head(s) \in WhiteSpace THEN trim_start(Tail(s)) ELSE s

RECURSIVE trim_end(_)
trim_end(s) ==
    IF s = <<>> THEN s
    ELSE IF s[Len(s)] \in WhiteSpace THEN trim_end(SubSeq(s, 1, Len(s) - 1)) ELSE s

\* str::trim
trim(s) == trim_end(trim_start(s))

\* ------------------------------------------------------------------ clock
MonthName ==
    <<  <<"J","a","n","u","a","r","y">>,
        <<"F","e","b","r","u","a","r","y">>,
        <<"M","a","r","c","h">>,
        <<"A","p","r","i","l">>,
        <<"M","a","y">>,
        <<"J","u","n","e">>,
        <<"J","u","l","y">>,
        <<"A","u","g","u","s","t">>,
        <<"S","e","p","t","e","m","b","e","r">>,
        <<"O","c","t","o","b","e","r">>,
        <<"N","o","v","e","m","b","e","r">>,
        <<"D","e","c","e","m","b","e","r">> >>

DaysIn == <<31, 28, 31, 30, 31, 30, 31, 31, 30, 31, 30, 31>>

Digit == [d \in 0..9 |-> <<"0","1","2","3","4","5","6","7","8","9">>[d + 1]]

\* The decimal digits of a day of the month, 1..31.
Decimal(d) == IF d < 10 THEN <<Digit[d]>> ELSE <<Digit[d \div 10], Digit[d % 10]>>

\* chrono's %e: the day of the month, space-padded to two characters.
FormatE(d) == IF d < 10 THEN <<" ", Digit[d]>> ELSE Decimal(d)

\* chrono's %B: the full month name.
FormatB(m) == MonthName[m]

NextDay(t) ==
    IF t.day < DaysIn[t.month] THEN [t EXCEPT !.day = t.day + 1]
    ELSE [month |-> (t.month % 12) + 1, day |-> 1]

\* The dates a run may start on (a one-digit day, the last day of a year).
ClockSamples == {[month |-> 1, day |-> 9], [month |-> 12, day |-> 31]}

\* ------------------------------------------------------------------ data_processing.rs
\* today_date with the day written before the month.
today_date_day_first(now) == FormatE(now.day) \o FormatB(now.month)

\* today.format("%B%e").to_string()
today_date(now) == FormatB(now.month) \o FormatE(now.day)

\* clean_text without the trim.
clean_text_untrimmed(text) == text

clean_text(text) == trim(text)

\* parse_date testing the raw string, not the trimmed one, for emptiness.
parse_date_raw_empty(date_str, is_start_date, now) ==
    IF date_str = <<>>
    THEN IF is_start_date THEN today_date(now) ELSE <<"N", "/", "A">>
    ELSE trim(date_str)

parse_date(date_str, is_start_date, now) ==
    IF trim(date_str) = <<>>
    THEN IF is_start_date THEN today_date(now) ELSE <<"N", "/", "A">>
    ELSE trim(date_str)

\* The closure cleaning the url like the other text fields.
ProcessOne_url_cleaned(event, now) ==
    [ name       |-> clean_text(event.name),
      start_date |-> parse_date(event.start_date, TRUE, now),
      end_date   |-> parse_date(event.end_date, FALSE, now),
      location   |-> clean_text(event.location),
      url        |-> clean_text(event.url) ]

\* The closure process_data maps over the events.
ProcessOne(event, now) ==
    [ name       |-> clean_text(event.name),
      start_date |-> parse_date(event.start_date, TRUE, now),
      end_date   |-> parse_date(event.end_date, FALSE, now),
      location   |-> clean_text(event.location),
      url        |-> event.url ]

\* process_data skipping the events that have no name.
process_data_skipping(evs, now) ==
    LET kept == SelectSeq(evs, LAMBDA e : trim(e.name) # <<>>)
    IN  [i \in 1..Len(kept) |-> ProcessOne(kept[i], now)]

process_data(evs, now) == [i \in 1..Len(evs) |-> ProcessOne(evs[i], now)]

\* ------------------------------------------------------------------ inputs of a direct call
\* Padded and plain samples for the fields that are not drawn in full.
TextSamples == { <<>>, <<" ", "x", " ">>, <<"x", " ", "x">> }

RawEvents ==
    [ name : Strs(MaxLen), start_date : Strs(MaxLen), end_date : Strs(MaxLen),
      location : TextSamples, url : TextSamples ]

\* A few events that differ from one another in every field, for the longer vectors.
EventSamples ==
    { [ name |-> <<"x">>, start_date |-> <<>>, end_date |-> <<" ">>,
        location |-> <<>>, url |-> <<"x", " ", "x">> ],
      [ name |-> <<" ", "x">>, start_date |-> <<"x", " ">>, end_date |-> <<"x">>,
        location |-> <<" ", "x", " ">>, url |-> <<" ", "x", " ">> ],
      [ name |-> <<>>, start_date |-> <<" ">>, end_date |-> <<>>,
        location |-> <<"x", " ", "x">>, url |-> <<>> ] }

RawInputs ==
    {<<e>> : e \in RawEvents}
        \cup UNION {[1..k -> EventSamples] : k \in 0..MaxEvents}

NoConfig ==
    [ event_selector |-> <<>>, name_selector |-> <<>>, start_date_selector |-> <<>>,
      end_date_selector |-> <<>>, location_selector |-> <<>>, url |-> <<>> ]

\* ------------------------------------------------------------------ the document (scraper::Html)
\* Longest page drawn, in top-level nodes of its body.
MaxBlocks == 2

NoAttr == [present |-> FALSE, value |-> <<>>]

Attr(v) == [present |-> TRUE, value |-> v]

Text(data) ==
    [ kind |-> "text", tag |-> "", class |-> "", href |-> NoAttr, type |-> "",
      data |-> data, kids |-> <<>> ]

Elem(tag, class, href, kids) ==
    [ kind |-> "elem", tag |-> tag, class |-> class, href |-> href, type |-> "",
      data |-> <<>>, kids |-> kids ]

Script(type, data) ==
    [ kind |-> "elem", tag |-> "script", class |-> "", href |-> NoAttr, type |-> type,
      data |-> <<>>, kids |-> IF data = <<>> THEN <<>> ELSE <<Text(data)>> ]

RECURSIVE Flatten(_)
Flatten(ss) == IF ss = <<>> THEN <<>> ELSE Head(ss) \o Flatten(Tail(ss))

\* The element descendants of a sequence of sibling nodes, in document order.
RECURSIVE Descendants(_)
Descendants(nodes) ==
    IF nodes = <<>> THEN <<>>
    ELSE LET n == Head(nodes)
         IN  (IF n.kind = "elem" THEN <<n>> \o Descendants(n.kids) ELSE <<>>)
                 \o Descendants(Tail(nodes))

\* Html::parse_document: the page's nodes end up under html > body.
parse_document(page) ==
    Elem("html", "", NoAttr, <<Elem("head", "", NoAttr, <<>>), Elem("body", "", NoAttr, page)>>)

\* ------------------------------------------------------------------ selectors (scraper::Selector)
\* "script[type='application/ld+json']"
Marker == <<"script", "[", "type", "=", "'", "application/ld+json", "'", "]">>

SelectorPunct == {".", "[", "]", "=", "'", ">", " ", ",", "#", ":"}

IsIdent(sym) == sym \notin SelectorPunct

SelectorErr == [ok |-> FALSE, kind |-> "", name |-> "", value |-> ""]

\* Selector::parse, for the selector shapes drawn: .class, tag, tag[type='value'].
SelectorParse(s) ==
    IF Len(s) = 1 /\ IsIdent(s[1])
    THEN [ok |-> TRUE, kind |-> "tag", name |-> s[1], value |-> ""]
    ELSE IF Len(s) = 2 /\ s[1] = "." /\ IsIdent(s[2])
    THEN [ok |-> TRUE, kind |-> "class", name |-> s[2], value |-> ""]
    ELSE IF /\ Len(s) = 8 /\ IsIdent(s[1]) /\ s[2] = "[" /\ s[3] = "type" /\ s[4] = "="
            /\ s[5] = "'" /\ IsIdent(s[6]) /\ s[7] = "'" /\ s[8] = "]"
    THEN [ok |-> TRUE, kind |-> "type", name |-> s[1], value |-> s[6]]
    ELSE SelectorErr

Matches(sel, el) ==
    CASE sel.kind = "tag"   -> el.tag = sel.name
      [] sel.kind = "class" -> el.class = sel.name
      [] sel.kind = "type"  -> el.tag = sel.name /\ el.type = sel.value
      [] OTHER -> FALSE

\* Html::select / ElementRef::select: the matching descendants, in document order.
select(el, sel) == SelectSeq(Descendants(el.kids), LAMBDA d : Matches(sel, d))

\* Iterator::next on a selection.
First(sq) == IF sq = <<>> THEN [some |-> FALSE] ELSE [some |-> TRUE, el |-> sq[1]]

\* ------------------------------------------------------------------ serialisation (ElementRef::inner_html)
EscapeText(sym) ==
    CASE sym = "&" -> <<"&", "a", "m", "p", ";">>
      [] sym = "<" -> <<"&", "l", "t", ";">>
      [] sym = ">" -> <<"&", "g", "t", ";">>
      [] OTHER -> <<sym>>

EscapeAttr(sym) ==
    CASE sym = "&" -> <<"&", "a", "m", "p", ";">>
      [] sym = "\"" -> <<"&", "q", "u", "o", "t", ";">>
      [] OTHER -> <<sym>>

EscapeTextAll(s) == Flatten([i \in 1..Len(s) |-> EscapeText(s[i])])

EscapeAttrAll(s) == Flatten([i \in 1..Len(s) |-> EscapeAttr(s[i])])

AttrHtml(name, value) == <<" ", name, "=", "\"">> \o EscapeAttrAll(value) \o <<"\"">>

OpenTag(el) ==
    <<"<", el.tag>>
        \o (IF el.class = "" THEN <<>> ELSE AttrHtml("class", <<el.class>>))
        \o (IF el.type = "" THEN <<>> ELSE AttrHtml("type", <<el.type>>))
        \o (IF el.href.present THEN AttrHtml("href", el.href.value) ELSE <<>>)
        \o <<">">>

\* inner_html with the children's text written as it is (a script's content).
RECURSIVE inner_html(_)
SerializeNode(n, raw) ==
    IF n.kind = "text"
    THEN IF raw THEN n.data ELSE EscapeTextAll(n.data)
    ELSE OpenTag(n) \o inner_html(n) \o <<"<", "/", n.tag, ">">>

\* The element's text nodes only, unescaped.
RECURSIVE text_content(_)
text_content(el) ==
    Flatten([i \in 1..Len(el.kids) |->
        IF el.kids[i].kind = "text" THEN el.kids[i].data ELSE text_content(el.kids[i])])

inner_html(el) ==
    Flatten([i \in 1..Len(el.kids) |-> SerializeNode(el.kids[i], el.tag = "script")])

\* ------------------------------------------------------------------ URLs (url::Url)
\* What Url::parse strips from both ends of its input (C0 controls and space).
C0Space == {" ", "\n"}

RECURSIVE StripStart(_)
StripStart(s) ==
    IF s = <<>> THEN s ELSE IF Head(s) \in C0Space THEN StripStart(Tail(s)) ELSE s

RECURSIVE StripEnd(_)
StripEnd(s) ==
    IF s = <<>> THEN s
    ELSE IF s[Len(s)] \in C0Space THEN StripEnd(SubSeq(s, 1, Len(s) - 1)) ELSE s

SpecialSchemes == {"http", "https"}

UrlPunct == {":", "/", "?", "#", " ", "\n", ".", "..", "@", "[", "]", ""}

\* Hosts the host parser refuses (a forbidden host code point, an unclosed IPv6 literal).
IsValidHost(sym) == sym \notin UrlPunct /\ sym \notin {"exa mple.com", "[::1"}

UrlErr == [ok |-> FALSE, scheme |-> "", host |-> "", path |-> <<>>, opaque |-> FALSE]

RECURSIVE SkipSlashes(_)
SkipSlashes(s) == IF s # <<>> /\ Head(s) = "/" THEN SkipSlashes(Tail(s)) ELSE s

\* The segments of a path: the runs of symbols between its slashes.
RECURSIVE Split(_)
Split(p) ==
    IF \A k \in 1..Len(p) : p[k] # "/" THEN <<p>>
    ELSE LET k == CHOOSE j \in 1..Len(p) : p[j] = "/" /\ \A i \in 1..(j - 1) : p[i] # "/"
         IN  <<SubSeq(p, 1, k - 1)>> \o Split(SubSeq(p, k + 1, Len(p)))

PercentEncode(sym) == IF sym = " " THEN <<"%", "2", "0">> ELSE <<sym>>

\* Appends the segments to the path, resolving "." and "..".
RECURSIVE PushSegments(_, _)
PushSegments(path, segs) ==
    IF segs = <<>> THEN path
    ELSE LET seg  == Head(segs)
             last == Len(segs) = 1
             popped == IF path = <<>> THEN path ELSE SubSeq(path, 1, Len(path) - 1)
         IN  IF seg = <<".", ".">> \/ seg = <<"..">>
             THEN PushSegments(IF last THEN Append(popped, <<>>) ELSE popped, Tail(segs))
             ELSE IF seg = <<".">>
             THEN PushSegments(IF last THEN Append(path, <<>>) ELSE path, Tail(segs))
             ELSE PushSegments(Append(path, Flatten([i \in 1..Len(seg) |-> PercentEncode(seg[i])])),
                               Tail(segs))

\* The path after an authority: empty or starting with a slash.
PathOf(rest) == PushSegments(<<>>, Split(IF rest = <<>> THEN rest ELSE Tail(rest)))

\* Host and path of "//host/path" once the slashes are skipped.
ParseAuthority(scheme, s) ==
    IF s = <<>> \/ Head(s) = "/" \/ ~IsValidHost(Head(s)) THEN UrlErr
    ELSE IF Len(s) > 1 /\ s[2] # "/" THEN UrlErr
    ELSE [ok |-> TRUE, scheme |-> scheme, host |-> Head(s), path |-> PathOf(Tail(s)),
          opaque |-> FALSE]

HasScheme(s) == Len(s) >= 2 /\ s[1] \notin UrlPunct /\ s[2] = ":"

\* Url::parse of an input that has a scheme.
ParseAbsolute(s) ==
    IF s[1] \in SpecialSchemes
    THEN ParseAuthority(s[1], SkipSlashes(SubSeq(s, 3, Len(s))))
    ELSE [ok |-> TRUE, scheme |-> s[1], host |-> "", path |-> <<SubSeq(s, 3, Len(s))>>,
          opaque |-> TRUE]

\* Url::parse(input)
UrlParse(input) ==
    LET s == StripEnd(StripStart(input))
    IN  IF HasScheme(s) THEN ParseAbsolute(s) ELSE UrlErr

\* Url::join(base, input)
UrlJoin(base, input) ==
    LET s == StripEnd(StripStart(input))
    IN  IF HasScheme(s) THEN ParseAbsolute(s)
        ELSE IF base.opaque THEN UrlErr
        ELSE IF s = <<>> THEN base
        ELSE IF Len(s) >= 2 /\ s[1] = "/" /\ s[2] = "/"
        THEN ParseAuthority(base.scheme, SubSeq(s, 3, Len(s)))
        ELSE IF s[1] = "/"
        THEN [base EXCEPT !.path = PushSegments(<<>>, Split(Tail(s)))]
        ELSE [base EXCEPT !.path =
                 PushSegments(SubSeq(base.path, 1, Len(base.path) - 1), Split(s))]

\* Url::to_string
UrlString(u) ==
    IF u.opaque THEN <<u.scheme, ":">> \o u.path[1]
    ELSE <<u.scheme, ":", "/", "/", u.host>>
             \o Flatten([i \in 1..Len(u.path) |-> <<"/">> \o u.path[i]])

\* resolve_url: Ok(url) or the panic of one of its two unwraps.
resolve_url(base, relative) ==
    LET b == UrlParse(base)
    IN  IF ~b.ok THEN [panic |-> "base url", url |-> <<>>]
        ELSE LET j == UrlJoin(b, relative)
             IN  IF ~j.ok THEN [panic |-> "join", url |-> <<>>]
                 ELSE [panic |-> "", url |-> UrlString(j)]

\* ------------------------------------------------------------------ JSON (serde_json::Value)
JNull == [t |-> "null", s |-> <<>>, items |-> <<>>, members |-> <<>>]

JBool(b) == [t |-> "bool", s |-> <<b>>, items |-> <<>>, members |-> <<>>]

JNum(digits) == [t |-> "num", s |-> digits, items |-> <<>>, members |-> <<>>]

JStr(chars) == [t |-> "str", s |-> chars, items |-> <<>>, members |-> <<>>]

JArr(items) == [t |-> "arr", s |-> <<>>, items |-> items, members |-> <<>>]

\* An object: its members in the order written, each [k |-> key, v |-> value].
JObj(members) == [t |-> "obj", s |-> <<>>, items |-> <<>>, members |-> members]

JsonWs == {" ", "\n"}

JsonDigits == {"0", "1", "2", "3", "4", "5", "6", "7", "8", "9"}

RECURSIVE SkipWs(_)
SkipWs(s) == IF s # <<>> /\ Head(s) \in JsonWs THEN SkipWs(Tail(s)) ELSE s

JsonFail == [ok |-> FALSE, v |-> JNull, rest |-> <<>>]

JsonOk(v, rest) == [ok |-> TRUE, v |-> v, rest |-> rest]

\* A string literal: from the opening quote to the next quote.
ParseString(s) ==
    IF \A k \in 2..Len(s) : s[k] # "\"" THEN JsonFail
    ELSE LET k == CHOOSE j \in 2..Len(s) : s[j] = "\"" /\ \A i \in 2..(j - 1) : s[i] # "\""
         IN  JsonOk(JStr(SubSeq(s, 2, k - 1)), SubSeq(s, k + 1, Len(s)))

RECURSIVE DigitRun(_)
DigitRun(s) == IF s # <<>> /\ Head(s) \in JsonDigits THEN 1 + DigitRun(Tail(s)) ELSE 0

RECURSIVE ParseValue(_)
RECURSIVE ParseElements(_, _)
RECURSIVE ParseMembers(_, _)

ParseValue(s0) ==
    LET s == SkipWs(s0)
    IN  IF s = <<>> THEN JsonFail
        ELSE CASE Head(s) = "\"" -> ParseString(s)
               [] Head(s) = "[" ->
                    LET t == SkipWs(Tail(s))
                    IN  IF t # <<>> /\ Head(t) = "]" THEN JsonOk(JArr(<<>>), Tail(t))
                        ELSE ParseElements(t, <<>>)
               [] Head(s) = "{" ->
                    LET t == SkipWs(Tail(s))
                    IN  IF t # <<>> /\ Head(t) = "}" THEN JsonOk(JObj(<<>>), Tail(t))
                        ELSE ParseMembers(t, <<>>)
               [] Head(s) \in JsonDigits ->
                    LET n == DigitRun(s)
                    IN  JsonOk(JNum(SubSeq(s, 1, n)), SubSeq(s, n + 1, Len(s)))
               [] Head(s) = "null" -> JsonOk(JNull, Tail(s))
               [] Head(s) = "true" -> JsonOk(JBool("true"), Tail(s))
               [] Head(s) = "false" -> JsonOk(JBool("false"), Tail(s))
               [] OTHER -> JsonFail

ParseElements(s, acc) ==
    LET r == ParseValue(s)
        t == SkipWs(r.rest)
    IN  IF ~r.ok \/ t = <<>> THEN JsonFail
        ELSE IF Head(t) = "," THEN ParseElements(Tail(t), Append(acc, r.v))
        ELSE IF Head(t) = "]" THEN JsonOk(JArr(Append(acc, r.v)), Tail(t))
        ELSE JsonFail

ParseMembers(s0, acc) ==
    LET s == SkipWs(s0)
    IN  IF s = <<>> \/ Head(s) # "\"" THEN JsonFail
        ELSE LET k == ParseString(s)
                 t == SkipWs(k.rest)
             IN  IF ~k.ok \/ t = <<>> \/ Head(t) # ":" THEN JsonFail
                 ELSE LET r == ParseValue(Tail(t))
                          u == SkipWs(r.rest)
                          m == Append(acc, [k |-> k.v.s, v |-> r.v])
                      IN  IF ~r.ok \/ u = <<>> THEN JsonFail
                          ELSE IF Head(u) = "," THEN ParseMembers(Tail(u), m)
                          ELSE IF Head(u) = "}" THEN JsonOk(JObj(m), Tail(u))
                          ELSE JsonFail

\* serde_json::from_str::<Value>: one value, then nothing but whitespace.
from_str(s) ==
    LET r == ParseValue(s)
    IN  IF r.ok /\ SkipWs(r.rest) = <<>> THEN [ok |-> TRUE, v |-> r.v]
        ELSE [ok |-> FALSE, v |-> JNull]

\* value[key]: the member of an object (the last one written wins), or Null.
Index(v, key) ==
    LET hits == {i \in 1..Len(v.members) : v.members[i].k = key}
    IN  IF v.t = "obj" /\ hits # {}
        THEN v.members[CHOOSE i \in hits : \A j \in hits : j <= i].v
        ELSE JNull

\* Value::as_str().unwrap_or_default()
as_str_or_default(v) == IF v.t = "str" THEN v.s ELSE <<>>

\* ------------------------------------------------------------------ html_parser.rs
NoEvent ==
    [name |-> <<>>, start_date |-> <<>>, end_date |-> <<>>, location |-> <<>>, url |-> <<>>]

\* The event of a JSON object reading its location as a plain string.
JsonEvent_flat_location(event_json) ==
    [ name       |-> as_str_or_default(Index(event_json, <<"name">>)),
      start_date |-> as_str_or_default(Index(event_json, <<"startDate">>)),
      end_date   |-> as_str_or_default(Index(event_json, <<"endDate">>)),
      location   |-> as_str_or_default(Index(event_json, <<"location">>)),
      url        |-> as_str_or_default(Index(event_json, <<"url">>)) ]

\* The body of the loop over events_iter.
JsonEvent(event_json) ==
    [ name       |-> as_str_or_default(Index(event_json, <<"name">>)),
      start_date |-> as_str_or_default(Index(event_json, <<"startDate">>)),
      end_date   |-> as_str_or_default(Index(event_json, <<"endDate">>)),
      location   |-> as_str_or_default(Index(Index(event_json, <<"location">>), <<"name">>)),
      url        |-> as_str_or_default(Index(event_json, <<"url">>)) ]

\* The events of a parsed payload taking an array's first element only.
JsonEvents_first_only(json) ==
    IF json.t = "arr"
    THEN IF json.items = <<>> THEN <<>> ELSE <<JsonEvent(json.items[1])>>
    ELSE <<JsonEvent(json)>>

\* events_iter and the loop over it.
JsonEvents(json) ==
    LET items == IF json.t = "arr" THEN json.items ELSE <<json>>
    IN  [i \in 1..Len(items) |-> JsonEvent(items[i])]

\* The structured-data branch of parse_html.
parse_json(root, cfg) ==
    LET script_content == First(select(root, SelectorParse(cfg.event_selector)))
    IN  IF ~script_content.some THEN [panic |-> "", events |-> <<>>]
        ELSE LET json == from_str(inner_html(script_content.el))
             IN  IF ~json.ok THEN [panic |-> "", events |-> <<>>]
                 ELSE [panic |-> "", events |-> JsonEvents(json.v)]

\* event_element.select(&Selector::parse(selector).unwrap()).next().map(|e| e.inner_html())
\*     .unwrap_or_default(), given the parsed selector.
FieldHtml(event_element, sel) ==
    LET e == First(select(event_element, sel))
    IN  IF e.some THEN inner_html(e.el) ELSE <<>>

\* ... .next().and_then(|e| e.value().attr("href")).unwrap_or_default()
FieldHref(event_element, sel) ==
    LET e == First(select(event_element, sel))
    IN  IF e.some /\ e.el.href.present THEN e.el.href.value ELSE <<>>

FieldSelectors(cfg) ==
    <<cfg.name_selector, cfg.start_date_selector, cfg.end_date_selector,
      cfg.location_selector, cfg.url>>

\* One pass of the loop over the event elements: the event, or the panic of an unwrap.
ExtractBlock(event_element, cfg, base) ==
    IF \E k \in 1..5 : ~SelectorParse(FieldSelectors(cfg)[k]).ok
    THEN [panic |-> "selector", event |-> NoEvent]
    ELSE LET url == resolve_url(base, FieldHref(event_element, SelectorParse(cfg.url)))
         IN  IF url.panic # "" THEN [panic |-> url.panic, event |-> NoEvent]
             ELSE [ panic |-> "",
                    event |->
                      [ name       |-> FieldHtml(event_element, SelectorParse(cfg.name_selector)),
                        start_date |-> FieldHtml(event_element, SelectorParse(cfg.start_date_selector)),
                        end_date   |-> FieldHtml(event_element, SelectorParse(cfg.end_date_selector)),
                        location   |-> FieldHtml(event_element, SelectorParse(cfg.location_selector)),
                        url        |-> url.url ] ]

\* The DOM branch with every selector and the base URL checked before the loop.
parse_dom_checked_first(root, cfg, base) ==
    LET event_selector == SelectorParse(cfg.event_selector)
        blocks == IF event_selector.ok THEN select(root, event_selector) ELSE <<>>
        out    == [i \in 1..Len(blocks) |-> ExtractBlock(blocks[i], cfg, base)]
    IN  IF ~event_selector.ok \/ \E k \in 1..5 : ~SelectorParse(FieldSelectors(cfg)[k]).ok
        THEN [panic |-> "selector", events |-> <<>>]
        ELSE IF ~UrlParse(base).ok THEN [panic |-> "base url", events |-> <<>>]
        ELSE IF \E i \in 1..Len(out) : out[i].panic # ""
        THEN [panic |-> "join", events |-> <<>>]
        ELSE [panic |-> "", events |-> [i \in 1..Len(out) |-> out[i].event]]

\* The DOM branch of parse_html.
parse_dom(root, cfg, base) ==
    LET event_selector == SelectorParse(cfg.event_selector)
    IN  IF ~event_selector.ok THEN [panic |-> "selector", events |-> <<>>]
        ELSE LET blocks == select(root, event_selector)
                 out    == [i \in 1..Len(blocks) |-> ExtractBlock(blocks[i], cfg, base)]
             IN  IF \E i \in 1..Len(out) : out[i].panic # ""
                 THEN LET i == CHOOSE j \in 1..Len(out) :
                                   out[j].panic # "" /\ \A k \in 1..(j - 1) : out[k].panic = ""
                      IN  [panic |-> out[i].panic, events |-> <<>>]
                 ELSE [panic |-> "", events |-> [i \in 1..Len(out) |-> out[i].event]]

\* parse_html walking the DOM when the structured data gives no event.
parse_html_falling_back(page, cfg, base) ==
    LET root == parse_document(page)
        json == parse_json(root, cfg)
    IN  IF cfg.event_selector = Marker /\ json.events # <<>> THEN json
        ELSE parse_dom(root, [cfg EXCEPT !.event_selector = <<".", "event">>], base)

\* parse_html: the events it returns, or the panic that ends the call.
parse_html(page, cfg, base) ==
    LET root == parse_document(page)
    IN  IF cfg.event_selector = Marker THEN parse_json(root, cfg)
        ELSE parse_dom(root, cfg, base)

\* ------------------------------------------------------------------ the pages fetched
\* Longest JSON array drawn as a payload.
MaxArray == 2

\* The text a page author writes for a JSON value.
RECURSIVE JsonText(_)
JsonText(v) ==
    CASE v.t = "null" -> <<"null">>
      [] v.t = "bool" -> v.s
      [] v.t = "num"  -> v.s
      [] v.t = "str"  -> <<"\"">> \o v.s \o <<"\"">>
      [] v.t = "arr"  ->
            <<"[">>
                \o Flatten([i \in 1..Len(v.items) |->
                       (IF i > 1 THEN <<",", " ">> ELSE <<>>) \o JsonText(v.items[i])])
                \o <<"]">>
      [] v.t = "obj"  ->
            <<"{">>
                \o Flatten([i \in 1..Len(v.members) |->
                       (IF i > 1 THEN <<",">> ELSE <<>>)
                           \o <<"\"">> \o v.members[i].k \o <<"\"", ":", " ">>
                           \o JsonText(v.members[i].v)])
                \o <<"}">>

Absent == [t |-> "absent", s |-> <<>>, items |-> <<>>, members |-> <<>>]

\* An event object with the given values for the five keys; Absent leaves the key out.
EventObj(name, startDate, endDate, location, url) ==
    LET all == << [k |-> <<"name">>, v |-> name], [k |-> <<"@type">>, v |-> JStr(<<"Event">>)],
                  [k |-> <<"startDate">>, v |-> startDate], [k |-> <<"endDate">>, v |-> endDate],
                  [k |-> <<"location">>, v |-> location], [k |-> <<"url">>, v |-> url] >>
    IN  JObj(SelectSeq(all, LAMBDA m : m.v # Absent))

Place(name) == JObj(<<[k |-> <<"@type">>, v |-> JStr(<<"Place">>)], [k |-> <<"name">>, v |-> name]>>)

EventObjs ==
    { EventObj(n, sd, ed, loc, u) :
        n   \in {Absent, JStr(<<"A", " ">>), JNum(<<"7">>)},
        sd  \in {Absent, JStr(<<"1">>)},
        ed  \in {Absent, JStr(<<>>), JNull},
        loc \in {Absent, JStr(<<"L">>), Place(JStr(<<"L">>)), JObj(<<>>), Place(JNum(<<"4">>)),
                 JArr(<<Place(JStr(<<"L">>))>>)},
        u   \in {Absent, JStr(<<" ", "/", "u">>)} }

ObjA == EventObj(JStr(<<"A">>), JStr(<<"1">>), JStr(<<"2">>), Place(JStr(<<"L">>)), JStr(<<"/", "a">>))

ObjB == EventObj(JStr(<<"B">>), Absent, JNull, JStr(<<"M">>), Absent)

\* An object that writes its name twice.
ObjTwice == JObj(<<[k |-> <<"name">>, v |-> JNum(<<"1">>)], [k |-> <<"name">>, v |-> JStr(<<"C">>)]>>)

ArrayItems == {ObjA, ObjB, JStr(<<"A">>)}

\* The payloads that parse: single event objects, arrays, values that are neither.
Payloads ==
    EventObjs
        \cup {ObjA, ObjB, ObjTwice, JStr(<<"A">>), JNum(<<"1", "2">>), JNull}
        \cup {JArr(a) : a \in UNION {[1..k -> ArrayItems] : k \in 0..MaxArray}}

LdJson(text) == Script("application/ld+json", text)

\* Script contents that are not JSON.
Truncated == <<"{", "\"", "name", "\"", ":">>

Unparsable ==
    { <<>>, <<"x">>, Truncated, <<"{", "\"", "name", "\"", ":", "\"", "A", "\"">>,
      JsonText(ObjA) \o <<",">>, <<"[">> \o JsonText(ObjA) \o <<",", "]">> }

Div(class, kids) == Elem("div", class, NoAttr, kids)

Span(class, text) == Elem("span", class, NoAttr, <<Text(text)>>)

Link(href, text) == Elem("a", "url", href, <<Text(text)>>)

\* An event block with all five fields, the link relative to the site's root.
FullBlock ==
    Div("event", << Elem("h2", "name", NoAttr, <<Text(<<"A">>)>>),
                    Span("start-date", <<"1">>), Span("end-date", <<"2">>),
                    Span("location", <<"L">>), Link(Attr(<<"/", "a">>), <<"G", "o">>) >>)

\* An event block with nothing in it.
EmptyBlock == Div("event", <<>>)

\* A name below a wrapper and a second one after it, an empty end date, a padded
\* location, a link without href.
DeepBlock ==
    Div("event", << Div("wrap", <<Span("name", <<"B">>)>>), Span("name", <<"C">>),
                    Span("end-date", <<>>), Span("location", <<" ", "L", "\n">>),
                    Link(NoAttr, <<"G", "o">>) >>)

\* A name with markup and an ampersand in it, an absolute link.
MarkupBlock ==
    Div("event", << Elem("h2", "name", NoAttr,
                         <<Elem("b", "", NoAttr, <<Text(<<"R">>)>>), Text(<<"&", "B">>)>>),
                    Link(Attr(<<"http", ":", "/", "/", "other.org", "/", "p">>), <<"G", "o">>) >>)

\* An event block inside an event block.
NestedBlock ==
    Div("event", << Div("event", <<Span("name", <<"I">>), Link(Attr(<<"i">>), <<>>)>>),
                    Span("name", <<"O">>), Span("start-date", <<"3">>) >>)

\* A link whose href no URL parser accepts.
BadHrefBlock ==
    Div("event", << Span("name", <<"Z">>), Link(Attr(<<"http", ":", "/", "/">>), <<"G", "o">>) >>)

\* A padded name, an absolute link that names a host and no path.
HostOnlyBlock ==
    Div("event", << Span("name", <<" ", "N">>),
                    Link(Attr(<<"http", ":", "/", "/", "other.org">>), <<"G", "o">>) >>)

\* Field elements outside every event block.
Stray ==
    Div("side", << Span("name", <<"S">>), Span("start-date", <<"9">>), Span("end-date", <<"9">>),
                   Span("location", <<"S">>), Link(Attr(<<"/", "s">>), <<"G", "o">>) >>)

TopItems ==
    { FullBlock, EmptyBlock, DeepBlock, MarkupBlock, NestedBlock, BadHrefBlock,
      HostOnlyBlock, Stray,
      LdJson(JsonText(JArr(<<ObjA, ObjB>>))), LdJson(JsonText(ObjB)),
      LdJson(Truncated), Script("text/javascript", JsonText(ObjA)) }

Pages ==
    UNION {[1..k -> TopItems] : k \in 0..MaxBlocks}
        \cup {<<LdJson(JsonText(v))>> : v \in Payloads}
        \cup {<<LdJson(t)>> : t \in Unparsable}

\* ------------------------------------------------------------------ the calls of parse_html
Sel(class) == <<".", class>>

\* The selectors of a site marked up like the pages above.
DomConfig ==
    [ event_selector |-> Sel("event"), name_selector |-> Sel("name"),
      start_date_selector |-> Sel("start-date"), end_date_selector |-> Sel("end-date"),
      location_selector |-> Sel("location"), url |-> <<"a">> ]

\* Selector strings Selector::parse refuses.
BadSelectors == {<<>>, <<">", "a">>}

ConfigFields ==
    { "event_selector", "name_selector", "start_date_selector", "end_date_selector",
      "location_selector", "url" }

BrokenConfigs(cfg) ==
    {[cfg EXCEPT ![f] = <<>>] : f \in ConfigFields \ {"event_selector"}}
        \cup {[cfg EXCEPT !.event_selector = b] : b \in BadSelectors}

MarkerConfig == [DomConfig EXCEPT !.event_selector = Marker]

GoodBase == <<"http", ":", "/", "/", "example.com">>

DirBase == <<"http", ":", "/", "/", "example.com", "/", "a", "/">>

\* An absolute URL that cannot be a base.
OpaqueBase == <<"mailto", ":", "a", "@", "example.com">>

\* Not an absolute URL.
BadBase == <<"example.com">>

Calls ==
    ({DomConfig} \X {GoodBase, DirBase, OpaqueBase, BadBase})
        \cup (BrokenConfigs(DomConfig) \X {GoodBase})
        \cup ({MarkerConfig} \X {GoodBase, BadBase})
        \cup ({[MarkerConfig EXCEPT !.name_selector = <<>>, !.url = <<">", "a">>]} \X {GoodBase})

\* ------------------------------------------------------------------ actions
\* The local date advances.
Tick ==
    /\ pc \in {"menu", "fetched", "parsed", "fed_back"}
    /\ ticks < MaxTicks
    /\ today' = NextDay(today)
    /\ ticks' = ticks + 1
    /\ UNCHANGED <<pc, document, config, base_url, events, processed_events>>

\* data_processing::process_data(events)
ProcessData ==
    /\ pc = "parsed"
    /\ processed_events' = process_data(events, today)
    /\ pc' = "processed"
    /\ UNCHANGED <<document, config, base_url, events, today, ticks>>

\* web_requests::fetch_url returned the page; the site's selectors and base URL are set.
Fetch ==
    /\ pc = "menu"
    /\ \E page \in Pages, call \in Calls :
          /\ document' = page
          /\ config' = call[1]
          /\ base_url' = call[2]
    /\ pc' = "fetched"
    /\ UNCHANGED <<events, processed_events, today, ticks>>

\* html_parser::parse_html(&html_content, &config, base_url)
ParseHtml ==
    /\ pc = "fetched"
    /\ LET r == parse_html(document, config, base_url)
       IN  /\ pc' = IF r.panic = "" THEN "parsed" ELSE "panicked"
           /\ events' = r.events
    /\ UNCHANGED <<document, config, base_url, processed_events, today, ticks>>

\* The processed events are printed and the function returns to the menu.
Display ==
    /\ pc = "processed"
    /\ pc' = "menu"
    /\ document' = <<>>
    /\ config' = NoConfig
    /\ base_url' = <<>>
    /\ events' = <<>>
    /\ processed_events' = <<>>
    /\ UNCHANGED <<today, ticks>>

Init ==
    /\ pc = "menu"
    /\ document = <<>>
    /\ config = NoConfig
    /\ base_url = <<>>
    /\ events = <<>>
    /\ processed_events = <<>>
    /\ today \in ClockSamples
    /\ ticks = 0

Next == Fetch \/ ParseHtml \/ ProcessData \/ Display \/ Tick

Spec == Init /\ [][Next]_vars

\* process_data called directly on any vector of raw events (as its test does).
NormInit ==
    /\ pc = "parsed"
    /\ document = <<>>
    /\ config = NoConfig
    /\ base_url = <<>>
    /\ events \in RawInputs
    /\ processed_events = <<>>
    /\ today \in ClockSamples
    /\ ticks = 0

NormNext == ProcessData \/ Tick

NormSpec == NormInit /\ [][NormNext]_vars

\* A ProcessedEvent read as an Event: the five strings, field for field.
AsRaw(processed) ==
    [ name       |-> processed.name,
      start_date |-> processed.start_date,
      end_date   |-> processed.end_date,
      location   |-> processed.location,
      url        |-> processed.url ]

\* The caller turns what process_data returned into the input of a second call.
FeedBack ==
    /\ pc = "processed"
    /\ events' = [i \in 1..Len(processed_events) |-> AsRaw(processed_events[i])]
    /\ pc' = "fed_back"
    /\ UNCHANGED <<document, config, base_url, processed_events, today, ticks>>

\* data_processing::process_data(events), the second call.
ProcessAgain ==
    /\ pc = "fed_back"
    /\ processed_events' = process_data(events, today)
    /\ pc' = "reprocessed"
    /\ UNCHANGED <<document, config, base_url, events, today, ticks>>

TwiceNext == ProcessData \/ FeedBack \/ ProcessAgain \/ Tick

\* process_data called on any vector of raw events, then on its own output.
TwiceSpec == NormInit /\ [][TwiceNext]_vars

\* ------------------------------------------------------------------ properties of the normalisation
AllWhite(s) == \A k \in 1..Len(s) : s[k] \in WhiteSpace

NoEdgeWhite(s) == s = <<>> \/ (s[1] \notin WhiteSpace /\ s[Len(s)] \notin WhiteSpace)

\* out is in with its leading and trailing whitespace removed, and nothing else changed.
IsTrimOf(out, in) ==
    /\ NoEdgeWhite(out)
    /\ \E a \in 0..Len(in) :
          /\ a + Len(out) <= Len(in)
          /\ AllWhite(SubSeq(in, 1, a))
          /\ SubSeq(in, a + 1, a + Len(out)) = out
          /\ AllWhite(SubSeq(in, a + Len(out) + 1, Len(in)))

\* C1: process_data returns a vector of the length of its input whose i-th element
\* is the i-th input element normalised on its own (nothing dropped, merged,
\* duplicated or reordered), and the call always returns.
C1_OneToOne ==
    /\ pc \in {"parsed", "processed"}
    /\ pc = "parsed" => ENABLED ProcessData
    /\ pc = "processed" =>
          /\ Len(processed_events) = Len(events)
          /\ \A i \in 1..Len(events) :
                /\ processed_events[i] = ProcessOne(events[i], today)
                /\ IsTrimOf(processed_events[i].name, events[i].name)

C1_Witness ==
    /\ pc = "processed"
    /\ Len(events) = 2
    /\ events[1] # events[2]
    /\ trim(events[1].name) = <<>>
    /\ processed_events[1] # processed_events[2]

\* C2: every normalised event has a non-empty start_date and end_date, and its name
\* and location are the raw ones with the leading and trailing whitespace removed
\* and no other change.
C2_CleanFields ==
    pc = "processed" =>
        \A i \in 1..Len(processed_events) :
            /\ processed_events[i].start_date # <<>>
            /\ processed_events[i].end_date # <<>>
            /\ IsTrimOf(processed_events[i].name, events[i].name)
            /\ IsTrimOf(processed_events[i].location, events[i].location)

C2_Witness ==
    /\ pc = "processed"
    /\ \E i \in 1..Len(events) :
          /\ events[i].name # <<>> /\ AllWhite(events[i].name)
          /\ events[i].start_date # <<>> /\ AllWhite(events[i].start_date)
          /\ events[i].end_date # <<>> /\ AllWhite(events[i].end_date)
          /\ events[i].location # processed_events[i].location
          /\ processed_events[i].name = <<>>

\* A day of the month padded with a space to two characters.
SpacePadded(digits) == IF Len(digits) < 2 THEN <<" ">> \o digits ELSE digits

\* The date policy with the given default for a missing start date.
DatePolicy(default_start) ==
    pc = "processed" =>
        \A i \in 1..Len(events) :
            /\ processed_events[i].start_date =
                  IF AllWhite(events[i].start_date) THEN default_start
                  ELSE trim(events[i].start_date)
            /\ processed_events[i].end_date =
                  IF AllWhite(events[i].end_date) THEN <<"N", "/", "A">>
                  ELSE trim(events[i].end_date)
            /\ ~AllWhite(events[i].start_date) =>
                  IsTrimOf(processed_events[i].start_date, events[i].start_date)
            /\ ~AllWhite(events[i].end_date) =>
                  IsTrimOf(processed_events[i].end_date, events[i].end_date)

MonthThenDay(now) == MonthName[now.month] \o Decimal(now.day)

MonthThenPaddedDay(now) == MonthName[now.month] \o SpacePadded(Decimal(now.day))

C4_UrlUnchanged ==
    pc = "processed" =>
        /\ Len(processed_events) = Len(events)
        /\ \A i \in 1..Len(events) : processed_events[i].url = events[i].url

C4_Witness ==
    /\ pc = "processed"
    /\ \E i \in 1..Len(events) :
          /\ processed_events[i].url = <<" ", "x", " ">>
          /\ processed_events[i].name # events[i].name
    /\ \E i \in 1..Len(events) : processed_events[i].url = <<>>

\* ------------------------------------------------------------------ properties of the extraction
Returned == pc \in {"parsed", "processed"}

Called == pc \in {"parsed", "processed", "panicked"}

DomMode == config.event_selector # Marker

SelectorsValid == \A f \in ConfigFields : SelectorParse(config[f]).ok

FieldSelectorsValid == \A f \in ConfigFields \ {"event_selector"} : SelectorParse(config[f]).ok

\* The base URL is an absolute URL that relative references can be joined onto.
BaseValid == UrlParse(base_url).ok /\ ~UrlParse(base_url).opaque

\* The elements of the page matching the container selector, in document order.
Containers == select(parse_document(document), SelectorParse(config.event_selector))

\* The text of the first descendant of the block matching the selector, "" when none does.
FirstText(block, selector) ==
    LET found == select(block, SelectorParse(selector))
    IN  IF found = <<>> THEN <<>> ELSE text_content(found[1])

FirstHref(block, selector) ==
    LET found == select(block, SelectorParse(selector))
    IN  IF found = <<>> \/ ~found[1].href.present THEN <<>> ELSE found[1].href.value

\* C5: in DOM mode with valid selectors and a valid base URL, the call returns one
\* event per element matching the container selector, in document order, whatever
\* the blocks hold, and the empty sequence when nothing matches.
C5_OnePerContainer ==
    (Called /\ DomMode /\ SelectorsValid /\ BaseValid) =>
        /\ pc # "panicked"
        /\ Len(events) = Len(Containers)
        /\ \A i \in 1..Len(Containers) :
              events[i].url = resolve_url(base_url, FirstHref(Containers[i], config.url)).url

\* C6: in DOM mode each of name, start_date, end_date and location is the text
\* content of the first descendant of the block matching its selector, or "" when
\* none matches, and the link is the href of the first descendant matching the
\* link selector, or "" when the element or the attribute is missing; nothing
\* outside the block contributes.
C6_FieldsAreText ==
    (Returned /\ DomMode /\ Len(events) = Len(Containers)) =>
        \A i \in 1..Len(events) :
            /\ events[i].name = FirstText(Containers[i], config.name_selector)
            /\ events[i].start_date = FirstText(Containers[i], config.start_date_selector)
            /\ events[i].end_date = FirstText(Containers[i], config.end_date_selector)
            /\ events[i].location = FirstText(Containers[i], config.location_selector)
            /\ events[i].url = resolve_url(base_url, FirstHref(Containers[i], config.url)).url

ConfigError == ~SelectorsValid \/ ~UrlParse(base_url).ok

\* C7 as stated: in DOM mode an invalid selector or an invalid base URL makes the
\* call fail, whatever the page holds.
C7_AsStated == (Called /\ DomMode /\ ConfigError) => pc = "panicked"

\* C7, amended: in DOM mode an invalid container selector always makes the call
\* fail; an invalid field selector or base URL makes it fail exactly when the page
\* has an element matching the container selector, and the failed call returns no
\* events at all; with no matching element the call returns the empty sequence.
C7_FailsAtFirstBlock ==
    (Called /\ DomMode /\ ConfigError) =>
        /\ ~SelectorParse(config.event_selector).ok => pc = "panicked"
        /\ SelectorParse(config.event_selector).ok =>
              (pc = "panicked" <=> Containers # <<>>)
        /\ events = <<>>

C7_Witness ==
    /\ pc = "panicked"
    /\ DomMode
    /\ ~SelectorParse(config.location_selector).ok
    /\ UrlParse(base_url).ok
    /\ Len(Containers) = 2
    /\ FirstText(Containers[1], config.name_selector) # <<>>

\* The ld+json scripts of the page, in document order.
LdScripts ==
    SelectSeq(Descendants(document),
              LAMBDA el : el.tag = "script" /\ el.type = "application/ld+json")

\* The text written in a script.
ScriptText(el) == IF el.kids = <<>> THEN <<>> ELSE el.kids[1].data

\* The payloads written as each text.
PayloadsOf == [t \in {JsonText(v) : v \in Payloads} |-> {v \in Payloads : JsonText(v) = t}]

\* The payloads whose text the first ld+json script holds.
FirstPayload ==
    IF LdScripts = <<>> \/ ScriptText(LdScripts[1]) \notin DOMAIN PayloadsOf THEN {}
    ELSE PayloadsOf[ScriptText(LdScripts[1])]

EventObjects(v) == IF v.t = "arr" THEN v.items ELSE <<v>>

\* The value of the key in an object (the last time it is written), Absent otherwise.
Member(v, key) ==
    IF v.t = "obj" /\ \E i \in 1..Len(v.members) : v.members[i].k = <<key>>
    THEN LET i == CHOOSE j \in 1..Len(v.members) :
                      /\ v.members[j].k = <<key>>
                      /\ \A k \in (j + 1)..Len(v.members) : v.members[k].k # <<key>>
         IN  v.members[i].v
    ELSE Absent

StringOr(v) == IF v.t = "str" THEN v.s ELSE <<>>

MappedEvent(obj) ==
    [ name       |-> StringOr(Member(obj, "name")),
      start_date |-> StringOr(Member(obj, "startDate")),
      end_date   |-> StringOr(Member(obj, "endDate")),
      location   |-> StringOr(Member(Member(obj, "location"), "name")),
      url        |-> StringOr(Member(obj, "url")) ]

\* C8: in structured-data mode with a parsable payload in the first ld+json script,
\* an array of N objects gives N events in array order and a single object gives one
\* event; later scripts contribute nothing.
C8_CountAndOrder ==
    /\ (Called /\ ~DomMode) => pc # "panicked"
    /\ (pc = "parsed" /\ ~DomMode) =>
        \A v \in FirstPayload :
            /\ Len(events) = (IF v.t = "arr" THEN Len(v.items) ELSE 1)
            /\ \A i \in 1..Len(events) : events[i].name = StringOr(Member(EventObjects(v)[i], "name"))

C8_Witness ==
    /\ pc = "parsed"
    /\ ~DomMode
    /\ Len(LdScripts) = 2
    /\ LdScripts[1] # LdScripts[2]
    /\ \E v \in FirstPayload : v.t = "arr" /\ Len(v.items) = 2
    /\ Len(events) = 2
    /\ events[1].name # events[2].name

\* C9: in structured-data mode the call returns the empty sequence, without error,
\* when the page has no ld+json script or when the first one does not hold JSON;
\* the DOM path is not tried instead.
C9_EmptyWithoutFallback ==
    (Called /\ ~DomMode /\ (LdScripts = <<>> \/ ScriptText(LdScripts[1]) \in Unparsable)) =>
        pc # "panicked" /\ events = <<>>

C9_Witness ==
    /\ pc = "parsed"
    /\ ~DomMode
    /\ Len(LdScripts) = 1
    /\ ScriptText(LdScripts[1]) = Truncated
    /\ \E i \in 1..Len(document) : document[i] = FullBlock
    /\ events = <<>>

\* C10: in structured-data mode every event object gives one event with
\* name, startDate, endDate, location.name and url read as strings, the empty string
\* standing for a key that is missing or not a string (or a location that is not an
\* object); nothing fails, and the field selectors and the base URL play no part.
C10_FieldMapping ==
    /\ (Called /\ ~DomMode) => pc # "panicked"
    /\ (pc = "parsed" /\ ~DomMode) =>
        \A v \in FirstPayload :
            /\ Len(events) = Len(EventObjects(v))
            /\ \A i \in 1..Len(events) : events[i] = MappedEvent(EventObjects(v)[i])

C10_Witness ==
    /\ pc = "parsed"
    /\ ~DomMode
    /\ ~FieldSelectorsValid
    /\ \E v \in FirstPayload :
          /\ Member(v, "name").t = "num"
          /\ Member(v, "endDate").t = "null"
          /\ Member(Member(v, "location"), "name").t = "str"
          /\ Member(v, "url").t = "str"
    /\ Len(events) = 1
    /\ events[1].name = <<>>
    /\ events[1].location # <<>>

\* ------------------------------------------------------------------ properties of the pipeline
\* The href as the claim resolves it: an absolute one as it is written, any other
\* joined onto the base.
ResolvedHref(base, href) ==
    IF UrlParse(href).ok THEN href ELSE resolve_url(base, href).url

\* The clean event the claim expects of an event block.
ExpectedClean(block) ==
    LET start == FirstText(block, config.start_date_selector)
        end   == FirstText(block, config.end_date_selector)
    IN  [ name       |-> trim(FirstText(block, config.name_selector)),
          start_date |-> IF AllWhite(start) THEN MonthThenPaddedDay(today) ELSE trim(start),
          end_date   |-> IF AllWhite(end) THEN <<"N", "/", "A">> ELSE trim(end),
          location   |-> trim(FirstText(block, config.location_selector)),
          url        |-> ResolvedHref(base_url, FirstHref(block, config.url)) ]

\* C11: on a DOM page, with valid selectors and a valid base URL, extraction followed
\* by normalisation gives one clean event per container, in document order: its url
\* is the block's href joined onto the base URL (an absolute href as it is written),
\* its name and location are the trimmed field texts, an empty end date gives "N/A"
\* and an empty start date gives today's formatted date.
C11_EndToEnd ==
    (Called /\ DomMode /\ SelectorsValid /\ BaseValid) =>
        /\ pc # "panicked"
        /\ pc = "processed" =>
              /\ Len(processed_events) = Len(Containers)
              /\ \A i \in 1..Len(Containers) :
                    processed_events[i] = ExpectedClean(Containers[i])

\* ------------------------------------------------------------------ properties of the second call
\* C12: process_data applied to its own output (the processed events read as raw
\* events) returns that output, field for field, whatever the input was and whether
\* or not the date changed between the two calls; the dates of the first output are
\* non-empty and trimming leaves every text of it but the url as it is.
C12_Idempotent ==
    /\ pc \in {"fed_back", "reprocessed"} =>
          \A i \in 1..Len(events) :
              /\ events[i].start_date # <<>> /\ trim(events[i].start_date) = events[i].start_date
              /\ events[i].end_date # <<>> /\ trim(events[i].end_date) = events[i].end_date
              /\ trim(events[i].name) = events[i].name
              /\ trim(events[i].location) = events[i].location
    /\ pc = "reprocessed" =>
          /\ Len(processed_events) = Len(events)
          /\ \A i \in 1..Len(events) :
                \A f \in {"name", "start_date", "end_date", "location", "url"} :
                    processed_events[i][f] = events[i][f]

C12_Witness ==
    /\ pc = "reprocessed"
    /\ Len(events) = 2
    /\ \E i \in 1..Len(events) :
          /\ events[i].start_date = <<"J", "a", "n", "u", "a", "r", "y", " ", "9">>
          /\ events[i].start_date # today_date(today)
          /\ events[i].end_date = <<"N", "/", "A">>
          /\ processed_events[i] = events[i]
    /\ \E i \in 1..Len(events) :
          /\ events[i].url = <<" ", "x", " ">>
          /\ events[i].start_date = <<"x">>

=============================================================================
